---- MODULE Spec2Model ----
(***************************************************************************)
(* KORRA core: the worker pool of core/thread.c (a ring buffer of tasks    *)
(* under queue_mutex with the condition variables queue_not_empty and      *)
(* queue_not_full) and the socket transport of net/transport.c.            *)
(*                                                                         *)
(* Threads are modelled at the granularity of their synchronisation        *)
(* points: acquiring queue_mutex is a step of its own, the code between    *)
(* an acquisition and the next release or pthread_cond_wait is one step,   *)
(* and a task's action runs in a step of its own with the mutex released.  *)
(***************************************************************************)
EXTENDS Integers, Sequences, FiniteSets, TLC

\* ------------------------------------------------------------- bounds
\* thread.c:20 sets MAX_QUEUE to 256 and thread.c:19 MAX_THREADS to 8; the
\* model keeps the code's arithmetic and scales both down.
MAX_QUEUE == 2
MAX_THREADS == 2
\* Threads that call thread_pool_submit, and calls they make in total.
NumProducers == 2
MaxTasks == 3

\* Descriptors the process can have open besides 0, 1 and 2, and the
\* largest payload_size a peer announces.
MaxFds == 2
MaxPayload == 2
\* The count of failed close() calls stops here.
MaxBadCloses == 2
\* The frames of the KORRA client that can wait unread.
MaxPending == 1

Main == 0
Workers == 1..MAX_THREADS
Producers == (MAX_THREADS + 1)..(MAX_THREADS + NumProducers)
Threads == {Main} \cup Workers \cup Producers
Tasks == 1..MaxTasks
Slots == 0..(MAX_QUEUE - 1)

VARIABLES
    \* thread_pool_t pool (thread.c:23-35)
    queue,          \* pool.queue: slot -> task id, 0 for a zeroed slot
    queue_size,     \* pool.queue_size
    head,           \* pool.head
    tail,           \* pool.tail
    shutdown,       \* pool.shutdown
    holders,        \* the threads that own pool.queue_mutex
    waitNotEmpty,   \* the threads blocked in pthread_cond_wait(queue_not_empty)
    waitNotFull,    \* the threads blocked in pthread_cond_wait(queue_not_full)
    destroyed,      \* pthread_mutex_destroy / pthread_cond_destroy have run
    \* control state
    pc,             \* thread -> its position in the code
    task,           \* thread -> the task a worker took / a producer submits
    joined,         \* the loop index i of thread_pool_shutdown's join loop
    \* history (never read by an action's guard)
    nsubmit,        \* thread_pool_submit calls made so far
    ret,            \* task -> "none" | "ok" (returned 0) | "rejected" (returned -1)
    enq,            \* the tasks in the order they were appended
    deq,            \* the tasks in the order they were taken
    executed,       \* task -> how often its action has run to completion
    blockedAt,      \* producer -> Len(deq) when its call in progress first waited, or -1
    okAtShutdown,   \* the tasks with ret = "ok" when thread_pool_shutdown was called
    sizeAtSignal,   \* pool.queue_size when the shutdown flag was set, or -1
    waited,         \* the tasks whose submit waited on a full queue
    callers         \* the threads that have called thread_pool_submit

VARIABLES
    \* transport_socket_t transport_socket (transport.c:25-32)
    socket_fd,      \* transport_socket.socket_fd
    is_server,      \* transport_socket.is_server
    is_connected,   \* transport_socket.is_connected
    \* the process and the caller
    fdOpen,         \* the descriptors the process has open
    badCloses,      \* close() calls on a descriptor that was not open
    client_fd,      \* the caller's int that transport_accept writes
    message,        \* the caller's transport_message_t that transport_receive fills
    lastOp,         \* the transport function called last
    lastRet,        \* what it returned
    hostLE,         \* this host stores the least significant byte first
    outMsg,         \* the caller's transport_message_t passed to the last transport_send
    trace,          \* the system and library calls the last call made, in order
    cause,          \* the exit the last call took (the line it logged)
    \* the other end
    peer,           \* the KORRA client on this host and the descriptor its connection is at
    pending         \* the frames it has sent that no recv() has read yet

poolState == <<queue, queue_size, head, tail, shutdown>>
syncState == <<holders, waitNotEmpty, waitNotFull, destroyed>>
ctlState  == <<pc, task, joined>>
history   == <<nsubmit, ret, enq, deq, executed, blockedAt, okAtShutdown, sizeAtSignal,
              waited, callers>>
poolVars  == <<poolState, syncState, ctlState, history>>
transportState == <<socket_fd, is_server, is_connected>>
transportVars  == <<transportState, fdOpen, badCloses, client_fd, message, lastOp, lastRet,
                    hostLE, outMsg, trace, cause, peer, pending>>
vars      == <<poolVars, transportVars>>

\* ------------------------------------------------------ pthread model

\* pthread_mutex_lock(&pool.queue_mutex), return value ignored (thread.c:40,
\* 106, 136).  It returns once the caller owns the mutex.  On a destroyed
\* mutex the call is undefined: it may behave as on a live mutex, or fail
\* (EINVAL) and let the caller go on without owning it.
MutexLock(t) ==
    \/ holders = {} /\ holders' = {t}
    \/ destroyed /\ holders' = holders

\* pthread_mutex_unlock(&pool.queue_mutex)
MutexUnlock(t) == holders' = holders \ {t}

\* A signal that wakes nobody.
SignalNone(waiters) == {{}}

\* pthread_cond_signal (thread.c:59, 127): wakes one thread blocked on the
\* condition, if any; the further threads POSIX lets it wake are the steps
\* of SpuriousWake.  A woken thread is inside pthread_cond_wait,
\* re-acquiring the mutex.  The result is the set of choices of whom to wake.
SignalOne(waiters) ==
    IF waiters = {} THEN {{}} ELSE { {t} : t \in waiters }

\* The position of every thread of `woken` becomes "relock".
Wake(woken) == [t \in Threads |-> IF t \in woken THEN "relock" ELSE pc[t]]

\* An index that runs off the end of the ring.
NextIndexNoWrap(i) == i + 1

\* thread.c:55, 121  (index + 1) % MAX_QUEUE
NextIndex(i) == (i + 1) % MAX_QUEUE

\* ------------------------------------------------------- thread_worker

\* The loop test with the negation of the flag dropped.
WorkerMustWaitNoNegation == queue_size = 0 /\ shutdown

\* thread.c:43  while (pool.queue_size == 0 && !pool.shutdown)
WorkerMustWait == queue_size = 0 /\ ~shutdown

\* The exit test without the test for an empty queue.
WorkerMustExitOnFlag == shutdown

\* thread.c:48  if (pool.shutdown && pool.queue_size == 0)
WorkerMustExit == shutdown /\ queue_size = 0

\* A worker that reads the slot written last.
DequeueSlotNewest == (tail + MAX_QUEUE - 1) % MAX_QUEUE

\* thread.c:54  the slot a worker reads its task from
DequeueSlot == head

\* thread.c:40
WorkerLock(w) ==
    /\ pc[w] = "lock"
    /\ MutexLock(w)
    /\ pc' = [pc EXCEPT ![w] = "cs"]
    /\ UNCHANGED <<transportVars, poolState, waitNotEmpty, waitNotFull, destroyed, task, joined, history>>

\* thread.c:43-44  the loop test holds: release the mutex and block
WorkerWait(w) ==
    /\ pc[w] = "cs"
    /\ WorkerMustWait
    /\ MutexUnlock(w)
    /\ waitNotEmpty' = waitNotEmpty \cup {w}
    /\ pc' = [pc EXCEPT ![w] = "wait"]
    /\ UNCHANGED <<transportVars, poolState, waitNotFull, destroyed, task, joined, history>>

\* thread.c:44  pthread_cond_wait returns after re-acquiring the mutex
WorkerRelock(w) ==
    /\ pc[w] = "relock"
    /\ MutexLock(w)
    /\ pc' = [pc EXCEPT ![w] = "cs"]
    /\ UNCHANGED <<transportVars, poolState, waitNotEmpty, waitNotFull, destroyed, task, joined, history>>

\* thread.c:48-51
WorkerExit(w) ==
    /\ pc[w] = "cs"
    /\ ~WorkerMustWait
    /\ WorkerMustExit
    /\ MutexUnlock(w)
    /\ pc' = [pc EXCEPT ![w] = "exited"]
    /\ UNCHANGED <<transportVars, poolState, waitNotEmpty, waitNotFull, destroyed, task, joined, history>>

\* thread.c:53-60  take the head task, signal queue_not_full, unlock
WorkerDequeue(w) ==
    /\ pc[w] = "cs"
    /\ ~WorkerMustWait
    /\ ~WorkerMustExit
    /\ task' = [task EXCEPT ![w] = queue[DequeueSlot]]
    /\ head' = NextIndex(head)
    /\ queue_size' = queue_size - 1
    /\ deq' = Append(deq, queue[DequeueSlot])
    /\ \E woken \in SignalOne(waitNotFull) :
          /\ waitNotFull' = waitNotFull \ woken
          /\ pc' = [Wake(woken) EXCEPT ![w] = "exec"]
    /\ MutexUnlock(w)
    /\ UNCHANGED <<transportVars, queue, tail, shutdown, waitNotEmpty, destroyed, joined,
                   nsubmit, ret, enq, executed, blockedAt, okAtShutdown, sizeAtSignal, waited, callers>>

\* thread.c:63-64  task.function(task.arg) runs to completion
WorkerExec(w) ==
    /\ pc[w] = "exec"
    /\ executed' = IF task[w] \in Tasks
                   THEN [executed EXCEPT ![task[w]] = @ + 1]
                   ELSE executed
    /\ task' = [task EXCEPT ![w] = 0]
    /\ pc' = [pc EXCEPT ![w] = "lock"]
    /\ UNCHANGED <<transportVars, poolState, syncState, joined, nsubmit, ret, enq, deq,
                   blockedAt, okAtShutdown, sizeAtSignal, waited, callers>>

\* -------------------------------------------------- thread_pool_submit

\* The loop test off by one: a full queue does not make the caller wait.
SubmitMustWaitOffByOne == queue_size > MAX_QUEUE /\ ~shutdown

\* thread.c:109  while (pool.queue_size == MAX_QUEUE && !pool.shutdown)
SubmitMustWait == queue_size = MAX_QUEUE /\ ~shutdown

\* A rejection only when the queue is full as well.
SubmitMustRejectWhenFull == shutdown /\ queue_size = MAX_QUEUE

\* thread.c:114  if (pool.shutdown)
SubmitMustReject == shutdown

\* A thread calls thread_pool_submit(task) with a task not submitted before.
SubmitCall(p) ==
    /\ pc[p] = "idle"
    /\ nsubmit < MaxTasks
    /\ nsubmit' = nsubmit + 1
    /\ task' = [task EXCEPT ![p] = nsubmit + 1]
    /\ pc' = [pc EXCEPT ![p] = "lock"]
    /\ callers' = callers \cup {p}
    /\ UNCHANGED <<transportVars, poolState, syncState, joined, ret, enq, deq, executed,
                   blockedAt, okAtShutdown, sizeAtSignal, waited>>

\* thread.c:106
SubmitLock(p) ==
    /\ pc[p] = "lock"
    /\ MutexLock(p)
    /\ pc' = [pc EXCEPT ![p] = "cs"]
    /\ UNCHANGED <<transportVars, poolState, waitNotEmpty, waitNotFull, destroyed, task, joined, history>>

\* thread.c:109-110
SubmitWait(p) ==
    /\ pc[p] = "cs"
    /\ SubmitMustWait
    /\ MutexUnlock(p)
    /\ waitNotFull' = waitNotFull \cup {p}
    /\ blockedAt' = IF blockedAt[p] < 0
                    THEN [blockedAt EXCEPT ![p] = Len(deq)]
                    ELSE blockedAt
    /\ waited' = waited \cup {task[p]}
    /\ pc' = [pc EXCEPT ![p] = "wait"]
    /\ UNCHANGED <<transportVars, poolState, waitNotEmpty, destroyed, task, joined,
                   nsubmit, ret, enq, deq, executed, okAtShutdown, sizeAtSignal, callers>>

\* thread.c:110  pthread_cond_wait returns after re-acquiring the mutex
SubmitRelock(p) ==
    /\ pc[p] = "relock"
    /\ MutexLock(p)
    /\ pc' = [pc EXCEPT ![p] = "cs"]
    /\ UNCHANGED <<transportVars, poolState, waitNotEmpty, waitNotFull, destroyed, task, joined, history>>

\* thread.c:114-117
SubmitReject(p) ==
    /\ pc[p] = "cs"
    /\ ~SubmitMustWait
    /\ SubmitMustReject
    /\ MutexUnlock(p)
    /\ ret' = [ret EXCEPT ![task[p]] = "rejected"]
    /\ pc' = [pc EXCEPT ![p] = "idle"]
    /\ task' = [task EXCEPT ![p] = 0]
    /\ blockedAt' = [blockedAt EXCEPT ![p] = -1]
    /\ UNCHANGED <<transportVars, poolState, waitNotEmpty, waitNotFull, destroyed, joined,
                   nsubmit, enq, deq, executed, okAtShutdown, sizeAtSignal, waited, callers>>

\* thread.c:119-130  append at the tail, signal queue_not_empty, unlock, return 0
SubmitEnqueue(p) ==
    /\ pc[p] = "cs"
    /\ ~SubmitMustWait
    /\ ~SubmitMustReject
    /\ queue' = [queue EXCEPT ![tail] = task[p]]
    /\ tail' = NextIndex(tail)
    /\ queue_size' = queue_size + 1
    /\ enq' = Append(enq, task[p])
    /\ \E woken \in SignalOne(waitNotEmpty) :
          /\ waitNotEmpty' = waitNotEmpty \ woken
          /\ pc' = [Wake(woken) EXCEPT ![p] = "idle"]
    /\ MutexUnlock(p)
    /\ ret' = [ret EXCEPT ![task[p]] = "ok"]
    /\ task' = [task EXCEPT ![p] = 0]
    /\ blockedAt' = [blockedAt EXCEPT ![p] = -1]
    /\ UNCHANGED <<transportVars, head, shutdown, waitNotFull, destroyed, joined,
                   nsubmit, deq, executed, okAtShutdown, sizeAtSignal, waited, callers>>

\* ------------------------------------------------ thread_pool_shutdown

\* The one call of thread_pool_shutdown begins (thread.c:133).
ShutdownCall ==
    /\ pc[Main] = "idle"
    /\ okAtShutdown' = {k \in Tasks : ret[k] = "ok"}
    /\ pc' = [pc EXCEPT ![Main] = "lock"]
    /\ UNCHANGED <<transportVars, poolState, syncState, task, joined, nsubmit, ret, enq, deq,
                   executed, blockedAt, sizeAtSignal, waited, callers>>

\* thread.c:136
ShutdownLock ==
    /\ pc[Main] = "lock"
    /\ MutexLock(Main)
    /\ pc' = [pc EXCEPT ![Main] = "cs"]
    /\ UNCHANGED <<transportVars, poolState, waitNotEmpty, waitNotFull, destroyed, task, joined, history>>

\* A shutdown that broadcasts queue_not_full only.
ShutdownWokenNotFullOnly == waitNotFull

\* thread.c:138-139  the threads the two pthread_cond_broadcast calls wake
ShutdownWoken == waitNotEmpty \cup waitNotFull

\* thread.c:137-140  set the flag, broadcast both conditions, unlock
ShutdownSignal ==
    /\ pc[Main] = "cs"
    /\ shutdown' = TRUE
    /\ waitNotEmpty' = waitNotEmpty \ ShutdownWoken
    /\ waitNotFull' = waitNotFull \ ShutdownWoken
    /\ pc' = [Wake(ShutdownWoken) EXCEPT ![Main] = "join"]
    /\ MutexUnlock(Main)
    /\ sizeAtSignal' = queue_size
    /\ UNCHANGED <<transportVars, queue, queue_size, head, tail, destroyed, task, joined,
                   nsubmit, ret, enq, deq, executed, blockedAt, okAtShutdown, waited,
                   callers>>

\* thread.c:143-148  pthread_join(pool.threads[i]) returns once worker i+1 has exited
ShutdownJoin ==
    /\ pc[Main] = "join"
    /\ joined < MAX_THREADS
    /\ pc[joined + 1] = "exited"
    /\ joined' = joined + 1
    /\ UNCHANGED <<transportVars, poolState, syncState, pc, task, history>>

\* thread.c:150-156  destroy the mutex and the conditions, return 0
ShutdownDestroy ==
    /\ pc[Main] = "join"
    /\ joined = MAX_THREADS
    /\ destroyed' = TRUE
    /\ pc' = [pc EXCEPT ![Main] = "returned"]
    /\ UNCHANGED <<transportVars, poolState, holders, waitNotEmpty, waitNotFull, task, joined, history>>

\* ------------------------------------------------------------ pthreads

\* POSIX lets pthread_cond_wait return without a signal.
SpuriousWake(t) ==
    /\ t \in waitNotEmpty \cup waitNotFull
    /\ waitNotEmpty' = waitNotEmpty \ {t}
    /\ waitNotFull' = waitNotFull \ {t}
    /\ pc' = [pc EXCEPT ![t] = "relock"]
    /\ UNCHANGED <<transportVars, poolState, holders, destroyed, task, joined, history>>

\* ----------------------------------------------------------- transport

\* transport.c:19
KORRA_MSG_MAGIC == 1263686209
\* transport.h:17
KORRA_PROTOCOL_VERSION == 1
\* sizeof(transport_header_t), transport.h:32-38: 4 + 1 + 1 + 2 + 4 bytes,
\* every field at a multiple of its size, so the compiler pads nothing.
HeaderSize == 12

\* transport.h:20-29  message_type_t
MsgTypes == {0, 1, 2, 3, 4, 5, 6, 255}
MSG_HEARTBEAT == 0
\* The msg_type bytes the model's callers and peers use: MSG_HEARTBEAT,
\* MSG_JOB_SUBMIT and MSG_ERROR.
WireTypes == {MSG_HEARTBEAT, 3, 255}

\* The payloads of the model: one of every length up to MaxPayload, of
\* bytes that differ from their neighbours.
PayloadOf(n) == [i \in 1..n |-> IF i % 2 = 1 THEN 7 ELSE 200]
Payloads == { PayloadOf(n) : n \in 0..MaxPayload }

\* What the two bytes of an unassigned uint16_t on the stack can hold.
Garbage == {0, 48879}

\* ---- the memory image of integers (transport.c:107, 132: the header
\* struct is sent and received as the bytes it occupies in memory)

Reverse(s) == [i \in 1..Len(s) |-> s[Len(s) + 1 - i]]

\* The bytes of a uint32_t, most significant first.
BigEndian32(v) == <<v \div 16777216, (v \div 65536) % 256, (v \div 256) % 256, v % 256>>
BigEndian16(v) == <<v \div 256, v % 256>>

\* The bytes a uint32_t / uint16_t occupies in the memory of a host that
\* stores the least significant byte first (le) or last.
U32Bytes(le, v) == IF le THEN Reverse(BigEndian32(v)) ELSE BigEndian32(v)
U16Bytes(le, v) == IF le THEN Reverse(BigEndian16(v)) ELSE BigEndian16(v)

\* The value such a host reads from four / two bytes of memory.
BytesU32(le, b) ==
    LET m == IF le THEN Reverse(b) ELSE b
    IN  m[1] * 16777216 + m[2] * 65536 + m[3] * 256 + m[4]
BytesU16(le, b) ==
    LET m == IF le THEN Reverse(b) ELSE b
    IN  m[1] * 256 + m[2]

\* transport.h:32-38  the memory image of a transport_header_t
HeaderBytes(le, magic, version, type, reserved, size) ==
    U32Bytes(le, magic) \o <<version, type>> \o U16Bytes(le, reserved) \o U32Bytes(le, size)

\* The fields a host reads from the twelve bytes of a transport_header_t.
HeaderOf(le, b) ==
    [magic        |-> BytesU32(le, SubSeq(b, 1, 4)),
     version      |-> b[5],
     msg_type     |-> b[6],
     reserved     |-> BytesU16(le, SubSeq(b, 7, 8)),
     payload_size |-> BytesU32(le, SubSeq(b, 9, 12))]

\* transport.c:100-104  the header transport_send builds for a message;
\* header.reserved is never assigned and holds `garbage`.
SendHeader(le, msg, garbage) ==
    HeaderBytes(le, KORRA_MSG_MAGIC, KORRA_PROTOCOL_VERSION, msg.msg_type, garbage,
                msg.payload_size)

\* ---- system calls

\* One system or library call of the transport: its name, the descriptor
\* it is made on (-1 if none), the byte count it asks for, the bytes it
\* passes (send) or is given in full (recv), and its result.
Sys(call, fd, n, data, r) == [call |-> call, fd |-> fd, n |-> n, data |-> data, ret |-> r]

\* The calls of `t` that are named `call`.
CallsOf(t, call) == {i \in 1..Len(t) : t[i].call = call}

\* The descriptor numbers socket() and accept() hand out: the lowest free.
\* Descriptors 0, 1 and 2 are the standard streams.
FdNumbers == 3..(2 + MaxFds)
FreeFds == FdNumbers \ fdOpen
LowestFree == CHOOSE fd \in FreeFds : \A other \in FreeFds : fd <= other

\* The result of close(fd): 0 on an open descriptor, -1 (EBADF) otherwise.
CloseResult(fd) == IF fd \in fdOpen THEN 0 ELSE -1

\* close(fd): closes an open descriptor; fails (EBADF) on any other number.
CloseFd(fd) ==
    IF fd \in fdOpen
    THEN fdOpen' = fdOpen \ {fd} /\ badCloses' = badCloses
    ELSE fdOpen' = fdOpen /\ badCloses' = IF badCloses < MaxBadCloses THEN badCloses + 1 ELSE badCloses

\* A KORRA client that is not connected to this process.
NoPeer == [state |-> "none", fd |-> -1]

\* ---- transport_init

\* transport.c:34-91  transport_init(port, server).  `fails` is the first
\* system call that fails, "none" when all succeed.
InitSteps(server) ==
    IF server THEN {"socket", "setsockopt", "bind", "listen", "none"}
              ELSE {"socket", "setsockopt", "connect", "none"}

\* transport.c:43, 51, 64, 71, 80  the calls in the order they are made
InitOrder(server) ==
    IF server THEN <<"socket", "setsockopt", "bind", "listen">>
              ELSE <<"socket", "setsockopt", "connect">>

\* The calls transport_init makes when `fails` fails, on descriptor fd.
InitTrace(server, fails, fd) ==
    LET order == InitOrder(server)
        last  == IF fails = "none" THEN Len(order)
                 ELSE CHOOSE i \in 1..Len(order) : order[i] = fails
        made  == [i \in 1..last |->
                    IF order[i] = "socket"
                    THEN Sys("socket", -1, 0, <<>>, fd)
                    ELSE Sys(order[i], fd, 0, <<>>, IF order[i] = fails THEN -1 ELSE 0)]
    IN  IF fails \in {"none", "socket"} THEN made
        ELSE Append(made, Sys("close", fd, 0, <<>>, 0))

transport_init(server, fails) ==
    /\ UNCHANGED poolVars
    /\ fails \in InitSteps(server)
    /\ fails # "socket" => FreeFds # {}
    /\ lastOp' = "init"
    /\ is_server' = server
    /\ badCloses' = badCloses
    /\ UNCHANGED <<client_fd, message, hostLE, outMsg, peer, pending>>
    /\ IF fails = "socket"
       THEN \* transport.c:43-47
            /\ socket_fd' = -1
            /\ is_connected' = FALSE
            /\ fdOpen' = fdOpen
            /\ lastRet' = -1
            /\ cause' = "socket"
            /\ trace' = InitTrace(server, fails, -1)
       ELSE IF fails # "none"
       THEN \* transport.c:51-55, 64-68, 71-75, 80-84: close the socket, keep its number
            /\ socket_fd' = LowestFree
            /\ is_connected' = FALSE
            /\ fdOpen' = fdOpen
            /\ lastRet' = -1
            /\ cause' = fails
            /\ trace' = InitTrace(server, fails, LowestFree)
       ELSE \* transport.c:77, 86-90
            /\ socket_fd' = LowestFree
            /\ is_connected' = ~server
            /\ fdOpen' = fdOpen \cup {LowestFree}
            /\ lastRet' = 0
            /\ cause' = "ok"
            /\ trace' = InitTrace(server, fails, LowestFree)

\* ---- transport_send

\* A transport_send that writes whether or not the transport is connected.
SendMayWriteAlways == TRUE

\* transport.c:94-97  transport_send goes on to write
SendMayWrite == is_connected

\* A transport_send that writes the payload although the header write failed.
PayloadWriteDueAnyway(msg, hdr) == msg.payload_size > 0

\* transport.c:107-113  transport_send goes on to write the payload
PayloadWriteDue(msg, hdr) == hdr = HeaderSize /\ msg.payload_size > 0

\* transport.c:93-122  transport_send(message).  `msg` is the caller's
\* message, `garbage` what the unassigned header.reserved holds, `hdr` and
\* `body` the byte counts the two send() calls return.
transport_send(msg, garbage, hdr, body) ==
    LET header  == SendHeader(hostLE, msg, garbage)
        writeH  == Sys("send", socket_fd, HeaderSize, header, hdr)
        writeP  == Sys("send", socket_fd, msg.payload_size, msg.data, body)
    IN
    /\ UNCHANGED poolVars
    /\ lastOp' = "send"
    /\ UNCHANGED <<transportState, fdOpen, badCloses, client_fd, message>>
    /\ UNCHANGED <<hostLE, peer, pending>>
    /\ outMsg' = msg
    /\ IF ~SendMayWrite
       THEN \* transport.c:94-97
            /\ lastRet' = -1
            /\ cause' = "not_connected"
            /\ trace' = <<>>
       ELSE IF ~PayloadWriteDue(msg, hdr)
       THEN \* transport.c:107-110, 113, 121
            /\ lastRet' = IF hdr # HeaderSize THEN -1 ELSE 0
            /\ cause' = IF hdr # HeaderSize THEN "send_header" ELSE "ok"
            /\ trace' = <<writeH>>
       ELSE \* transport.c:107, 113-118, 121
            /\ lastRet' = IF hdr # HeaderSize \/ body # msg.payload_size THEN -1 ELSE 0
            /\ cause' = IF hdr # HeaderSize THEN "send_header"
                        ELSE IF body # msg.payload_size THEN "send_payload" ELSE "ok"
            /\ trace' = <<writeH, writeP>>

\* ---- transport_receive

\* What recv() or send() can return for a request of n bytes: all of
\* them, none (for recv: the peer closed), an error, or fewer than asked.
RecvResults(n) == {n, 0, -1} \cup (IF n > 1 THEN {n - 1} ELSE {})

\* A validation that does not look at the version.
HeaderValidMagicOnly(magic, version) == magic = KORRA_MSG_MAGIC

\* transport.c:145-153  the header passes validation
HeaderValid(magic, version) ==
    magic = KORRA_MSG_MAGIC /\ version = KORRA_PROTOCOL_VERSION

\* transport.c:145-153  the check that rejects a header: magic first
FailedCheck(magic, version) ==
    IF magic # KORRA_MSG_MAGIC THEN "bad_magic" ELSE "bad_version"

\* transport.c:139-141, 173-177  what transport_receive returns when a
\* recv() fails or delivers fewer bytes than asked for
ReadErrorReturn == -1

\* transport.c:124-185  transport_receive(message).  `got` is what the
\* header recv() returns, `frame` the twelve bytes it delivers, `alloc`
\* whether malloc succeeds, `gotBody` what the payload recv() returns and
\* `body` the bytes it delivers.
transport_receive(got, frame, alloc, gotBody, body) ==
    LET header == HeaderOf(hostLE, frame)
        size   == header.payload_size
        recvH  == Sys("recv", socket_fd, HeaderSize, IF got = HeaderSize THEN frame ELSE <<>>, got)
        malloc == Sys("malloc", -1, size, <<>>, IF alloc THEN 1 ELSE 0)
        recvP  == Sys("recv", socket_fd, size, IF gotBody = size THEN body ELSE <<>>, gotBody)
        free   == Sys("free", -1, 0, <<>>, 0)
        filled(ptr, data) == [msg_type |-> header.msg_type, payload_size |-> size,
                              payload |-> ptr, data |-> data]
    IN
    /\ UNCHANGED poolVars
    /\ lastOp' = "receive"
    /\ UNCHANGED <<socket_fd, is_server, fdOpen, badCloses, client_fd>>
    /\ UNCHANGED <<hostLE, outMsg, peer, pending>>
    /\ IF ~is_connected
       THEN \* transport.c:125-128
            /\ lastRet' = -1
            /\ cause' = "not_connected"
            /\ trace' = <<>>
            /\ UNCHANGED <<is_connected, message>>
       ELSE IF got # HeaderSize
       THEN \* transport.c:132-142
            /\ is_connected' = IF got = 0 THEN FALSE ELSE is_connected
            /\ lastRet' = IF got = 0 THEN -1 ELSE ReadErrorReturn
            /\ cause' = IF got = 0 THEN "peer_closed" ELSE "recv_header"
            /\ trace' = <<recvH>>
            /\ UNCHANGED message
       ELSE IF ~HeaderValid(header.magic, header.version)
       THEN \* transport.c:145-153
            /\ lastRet' = -1
            /\ cause' = FailedCheck(header.magic, header.version)
            /\ trace' = <<recvH>>
            /\ UNCHANGED <<is_connected, message>>
       ELSE IF size = 0
       THEN \* transport.c:156-157, 179-184
            /\ message' = filled("null", <<>>)
            /\ lastRet' = 0
            /\ cause' = "ok"
            /\ trace' = <<recvH>>
            /\ UNCHANGED is_connected
       ELSE IF ~alloc
       THEN \* transport.c:161-165
            /\ message' = filled("null", <<>>)
            /\ lastRet' = -1
            /\ cause' = "no_memory"
            /\ trace' = <<recvH, malloc>>
            /\ UNCHANGED is_connected
       ELSE IF gotBody # size
       THEN \* transport.c:167-178
            /\ is_connected' = IF gotBody = 0 THEN FALSE ELSE is_connected
            /\ message' = filled("null", <<>>)
            /\ lastRet' = IF gotBody = 0 THEN -1 ELSE ReadErrorReturn
            /\ cause' = IF gotBody = 0 THEN "peer_closed_payload" ELSE "recv_payload"
            /\ trace' = <<recvH, malloc, recvP, free>>
       ELSE \* transport.c:167, 183-184
            /\ message' = filled("buffer", body)
            /\ lastRet' = 0
            /\ cause' = "ok"
            /\ trace' = <<recvH, malloc, recvP>>
            /\ UNCHANGED is_connected

\* ---- transport_accept

\* An accept that marks the transport connected.
AcceptConnectedSet(ok) == IF ok THEN TRUE ELSE is_connected

\* transport.c:187-206  is_connected after transport_accept
AcceptConnected(ok) == is_connected

\* transport.c:187-206  transport_accept(&client_fd).  `ok` is whether
\* accept() yields a connection; it cannot on a descriptor that is not a
\* listening socket or when the process has no descriptor left.  `who` is
\* whose connection it yields: the KORRA client's or some other program's.
transport_accept(ok, who) ==
    /\ UNCHANGED poolVars
    /\ lastOp' = "accept"
    /\ ok => (is_server /\ socket_fd \in fdOpen /\ FreeFds # {})
    /\ (ok /\ who = "peer") => (peer.state = "connected" /\ peer.fd = socket_fd)
    /\ UNCHANGED <<socket_fd, is_server, badCloses, message>>
    /\ UNCHANGED <<hostLE, outMsg, pending>>
    /\ IF ~is_server
       THEN \* transport.c:188-191
            /\ lastRet' = -1
            /\ cause' = "not_server"
            /\ trace' = <<>>
            /\ UNCHANGED <<is_connected, fdOpen, client_fd, peer>>
       ELSE IF ~ok
       THEN \* transport.c:196-201
            /\ client_fd' = -1
            /\ lastRet' = -1
            /\ cause' = "accept"
            /\ trace' = <<Sys("accept", socket_fd, 0, <<>>, -1)>>
            /\ is_connected' = AcceptConnected(FALSE)
            /\ UNCHANGED <<fdOpen, peer>>
       ELSE \* transport.c:196, 203-205
            /\ client_fd' = LowestFree
            /\ fdOpen' = fdOpen \cup {LowestFree}
            /\ lastRet' = 0
            /\ cause' = "ok"
            /\ trace' = <<Sys("accept", socket_fd, 0, <<>>, LowestFree)>>
            /\ is_connected' = AcceptConnected(TRUE)
            /\ peer' = IF who = "peer" THEN [state |-> "accepted", fd |-> LowestFree] ELSE peer

\* ---- transport_close

\* A close that keeps the descriptor's number.
FdAfterCloseKept == socket_fd

\* transport.c:213  transport_socket.socket_fd after close()
FdAfterClose == -1

\* transport.c:208-217  transport_close().  A client waiting in the
\* backlog of the socket that is closed loses its connection.
transport_close ==
    /\ UNCHANGED poolVars
    /\ lastOp' = "close"
    /\ lastRet' = 0
    /\ cause' = "ok"
    /\ UNCHANGED <<is_server, client_fd, message, hostLE, outMsg>>
    /\ IF socket_fd > 0
       THEN /\ CloseFd(socket_fd)
            /\ socket_fd' = FdAfterClose
            /\ trace' = <<Sys("close", socket_fd, 0, <<>>, CloseResult(socket_fd))>>
            /\ IF peer.state = "connected" /\ peer.fd = socket_fd
               THEN peer' = NoPeer /\ pending' = <<>>
               ELSE UNCHANGED <<peer, pending>>
       ELSE /\ trace' = <<>>
            /\ UNCHANGED <<socket_fd, fdOpen, badCloses, peer, pending>>
    /\ is_connected' = FALSE

\* ---- the KORRA client at the other end

\* transport.c:34-91 run by another process of this host with server =
\* false (line 59 makes it connect to this host): its connect() succeeds
\* against this process's listening socket, before any accept.
PeerConnect ==
    /\ UNCHANGED poolVars
    /\ peer.state = "none"
    /\ is_server
    /\ socket_fd \in fdOpen
    /\ peer' = [state |-> "connected", fd |-> socket_fd]
    /\ UNCHANGED <<transportState, fdOpen, badCloses, client_fd, message, lastOp, lastRet>>
    /\ UNCHANGED <<hostLE, outMsg, trace, cause, pending>>

\* transport.c:93-122 run by that client: transport_send(msg) returns 0,
\* its two writes are queued on the connection in full.
PeerSend(msg, garbage) ==
    /\ UNCHANGED poolVars
    /\ peer.state # "none"
    /\ Len(pending) < MaxPending
    /\ pending' = Append(pending, [msg |-> msg,
                                   header |-> SendHeader(hostLE, msg, garbage),
                                   payload |-> msg.data])
    /\ UNCHANGED <<transportState, fdOpen, badCloses, client_fd, message, lastOp, lastRet>>
    /\ UNCHANGED <<hostLE, outMsg, trace, cause, peer>>

\* ---- the transport's environment

\* The zeroed static transport_socket before the first transport_init, on
\* a host of either byte order.
TransportInit ==
    /\ socket_fd = 0
    /\ is_server = FALSE
    /\ is_connected = FALSE
    /\ fdOpen = {}
    /\ badCloses = 0
    /\ client_fd = -1
    /\ message = [msg_type |-> 0, payload_size |-> 0, payload |-> "unset", data |-> <<>>]
    /\ lastOp = "none"
    /\ lastRet = 0
    /\ hostLE \in BOOLEAN
    /\ outMsg = [msg_type |-> 0, payload_size |-> 0, data |-> <<>>]
    /\ trace = <<>>
    /\ cause = "none"
    /\ peer = NoPeer
    /\ pending = <<>>

Magics == {KORRA_MSG_MAGIC, 0, KORRA_MSG_MAGIC + 1}
Versions == {KORRA_PROTOCOL_VERSION, 2}

\* The messages a caller passes to transport_send: payload_size is the
\* length of the buffer payload points to.
Messages ==
    { [msg_type |-> type, payload_size |-> Len(data), data |-> data] :
        type \in WireTypes, data \in Payloads }

\* The message of end-to-end scenario A.
Heartbeat == [msg_type |-> MSG_HEARTBEAT, payload_size |-> 0, data |-> <<>>]

\* transport_init called for one of `roles`.
CallInitAs(roles) ==
    \E server \in roles : \E fails \in InitSteps(server) : transport_init(server, fails)
CallInit == CallInitAs(BOOLEAN)

\* transport_send called with one of `msgs`.  The result of a send() that
\* is not made is fixed, not enumerated.
CallSendOf(msgs) ==
    \E msg \in msgs : \E garbage \in Garbage : \E hdr \in {HeaderSize, HeaderSize - 1, -1} :
        IF hdr # HeaderSize \/ msg.payload_size = 0
        THEN transport_send(msg, garbage, hdr, 0)
        ELSE \E body \in RecvResults(msg.payload_size) : transport_send(msg, garbage, hdr, body)
CallSend == CallSendOf(Messages)

\* transport_receive called when the header recv() returns one of `gots`.
\* The peer of a connected transport is any program: it writes headers in
\* either byte order, with any magic and version, and with anything in
\* the reserved field of a header without payload.  The inputs a call
\* does not get to read or use are fixed, not enumerated.
CallReceiveGot(gots) ==
    \E got \in gots :
        IF got # HeaderSize
        THEN transport_receive(got, HeaderBytes(hostLE, 0, 0, 0, 0, 0), TRUE, 0, <<>>)
        ELSE \E le \in BOOLEAN : \E magic \in Magics : \E version \in Versions :
                LET seen == HeaderOf(hostLE, HeaderBytes(le, magic, version, 0, 0, 0))
                IN  IF ~HeaderValid(seen.magic, seen.version)
                    THEN \E size \in {0, MaxPayload} :
                            transport_receive(got, HeaderBytes(le, magic, version, 0, 0, size),
                                              TRUE, 0, <<>>)
                    ELSE \E type \in WireTypes : \E data \in Payloads :
                            LET frame(reserved) ==
                                    HeaderBytes(le, magic, version, type, reserved, Len(data))
                            IN  IF data = <<>>
                                THEN \E reserved \in Garbage :
                                        transport_receive(got, frame(reserved), TRUE, 0, <<>>)
                                ELSE \/ transport_receive(got, frame(0), FALSE, 0, <<>>)
                                     \/ \E gotBody \in RecvResults(Len(data)) :
                                           transport_receive(got, frame(0), TRUE, gotBody,
                                               IF gotBody = Len(data) THEN data ELSE <<>>)
CallReceive == CallReceiveGot(RecvResults(HeaderSize))

CallAccept ==
    \E ok \in BOOLEAN :
        IF ok THEN \E who \in {"peer", "other"} : transport_accept(ok, who)
        ELSE transport_accept(ok, "other")
CallClose == transport_close
CallPeerSend == \E msg \in Messages : \E garbage \in Garbage : PeerSend(msg, garbage)

\* The five functions, called in any order with any outcome of their
\* system calls; transport_send with the heartbeat only.
TransportNext ==
    \/ CallInit
    \/ CallSendOf({Heartbeat})
    \/ CallReceive
    \/ CallAccept
    \/ CallClose

\* The five functions with every message for transport_send; the header
\* recv() of transport_receive does not deliver a header.
WireNext ==
    \/ CallInit
    \/ CallSend
    \/ CallReceiveGot(RecvResults(HeaderSize) \ {HeaderSize})
    \/ CallAccept
    \/ CallClose

\* This process as the server of a KORRA client on the same host.
SessionNext ==
    \/ CallInitAs({TRUE})
    \/ CallSendOf({Heartbeat})
    \/ CallReceive
    \/ CallAccept
    \/ CallClose
    \/ PeerConnect
    \/ CallPeerSend

\* ---------------------------------------------------- specifications

\* The pool after a successful thread_pool_init (thread.c:70-103): the
\* state is zeroed, the flag is clear, MAX_THREADS workers are started.
PoolInit ==
    /\ queue = [i \in Slots |-> 0]
    /\ queue_size = 0
    /\ head = 0
    /\ tail = 0
    /\ shutdown = FALSE
    /\ holders = {}
    /\ waitNotEmpty = {}
    /\ waitNotFull = {}
    /\ destroyed = FALSE
    /\ pc = [t \in Threads |-> IF t \in Workers THEN "lock" ELSE "idle"]
    /\ task = [t \in Threads |-> 0]
    /\ joined = 0
    /\ nsubmit = 0
    /\ ret = [k \in Tasks |-> "none"]
    /\ enq = <<>>
    /\ deq = <<>>
    /\ executed = [k \in Tasks |-> 0]
    /\ blockedAt = [p \in Producers |-> -1]
    /\ okAtShutdown = {}
    /\ sizeAtSignal = -1
    /\ waited = {}
    /\ callers = {}

PoolNext ==
    \/ \E w \in Workers : WorkerLock(w)
    \/ \E w \in Workers : WorkerWait(w)
    \/ \E w \in Workers : WorkerRelock(w)
    \/ \E w \in Workers : WorkerExit(w)
    \/ \E w \in Workers : WorkerDequeue(w)
    \/ \E w \in Workers : WorkerExec(w)
    \/ \E p \in Producers : SubmitCall(p)
    \/ \E p \in Producers : SubmitLock(p)
    \/ \E p \in Producers : SubmitWait(p)
    \/ \E p \in Producers : SubmitRelock(p)
    \/ \E p \in Producers : SubmitReject(p)
    \/ \E p \in Producers : SubmitEnqueue(p)
    \/ ShutdownCall
    \/ ShutdownLock
    \/ ShutdownSignal
    \/ ShutdownJoin
    \/ ShutdownDestroy
    \/ \E t \in Workers \cup Producers : SpuriousWake(t)

Init == PoolInit /\ TransportInit

\* The pool alone.  No step of the pool reads the host's byte order: the
\* pool is checked on a little-endian host.
LittleEndianInit == Init /\ hostLE
Next == PoolNext
Spec == LittleEndianInit /\ [][Next]_vars

\* The transport alone.
TransportSpec == Init /\ [][TransportNext]_vars
WireSpec == Init /\ [][WireNext]_vars
SessionSpec == Init /\ [][SessionNext]_vars

\* The steps a thread takes by itself once it is inside a call.  Calling
\* thread_pool_submit or thread_pool_shutdown is the caller's choice and a
\* spurious wake-up is the platform's: neither is ever forced.
WorkerStep(w) ==
    \/ WorkerLock(w) \/ WorkerWait(w) \/ WorkerRelock(w)
    \/ WorkerExit(w) \/ WorkerDequeue(w) \/ WorkerExec(w)
SubmitStep(p) ==
    \/ SubmitLock(p) \/ SubmitWait(p) \/ SubmitRelock(p)
    \/ SubmitReject(p) \/ SubmitEnqueue(p)
ShutdownStep ==
    \/ ShutdownLock \/ ShutdownSignal \/ ShutdownJoin \/ ShutdownDestroy

\* Fair scheduling: a runnable thread runs, every action terminates, and a
\* thread that contends for queue_mutex is not passed over forever (strong
\* fairness: the mutex is free again and again, not continuously).
Fairness ==
    /\ \A w \in Workers : SF_vars(WorkerStep(w))
    /\ \A p \in Producers : SF_vars(SubmitStep(p))
    /\ SF_vars(ShutdownStep)

FairSpec == Spec /\ Fairness

\* ------------------------------------------------------------- claims

IsPrefix(s, t) == Len(s) <= Len(t) /\ \A i \in 1..Len(s) : s[i] = t[i]

\* How often task k occurs in the live part of the ring, in deq, and among
\* the tasks that workers are executing.
InRing(k) == Cardinality({i \in 0..(queue_size - 1) : queue[(head + i) % MAX_QUEUE] = k})
InDeq(k) == Cardinality({i \in 1..Len(deq) : deq[i] = k})
Running(k) == Cardinality({w \in Workers : pc[w] = "exec" /\ task[w] = k})

\* C1: units are dequeued in exactly the order in which their submits
\* appended them: the sequence of dequeued units is a prefix of the
\* sequence of enqueued units, whichever worker takes each.
C1_StrictFifo == IsPrefix(deq, enq)

\* Two producers appended out of call order and two workers took the first
\* two units and are executing them at once.
C1_Witness ==
    /\ Len(deq) >= 2
    /\ enq[1] > enq[2]
    /\ \A w \in Workers : pc[w] = "exec"

\* C2: when thread_pool_shutdown has returned, every unit whose submit
\* returned success (in particular before shutdown was called) has had its
\* action executed, exactly once; no worker has exited while the queue is
\* non-empty.
C2_ShutdownDrains ==
    /\ pc[Main] = "returned" =>
          /\ \A k \in okAtShutdown : executed[k] = 1
          /\ \A k \in Tasks : ret[k] = "ok" => executed[k] = 1
    /\ \A w \in Workers : pc[w] = "exited" => queue_size = 0

\* Shutdown returned after its flag was set on a full queue.
C2_Witness ==
    /\ pc[Main] = "returned"
    /\ sizeAtSignal = MAX_QUEUE
    /\ Cardinality(okAtShutdown) >= MAX_QUEUE

\* C3: a submit that tests the flag once it is set returns -1 and leaves
\* the slots, head, tail and queue_size as they are, with or without free
\* space, also when it had been waiting on a full queue.
C3_RejectAfterShutdown ==
    [][\A p \in Producers :
          (shutdown /\ pc[p] = "cs" /\ pc'[p] # "cs") =>
              /\ pc'[p] = "idle"
              /\ ret'[task[p]] = "rejected"
              /\ UNCHANGED <<queue, head, tail, queue_size, enq>>]_vars

\* A call that had waited on a full queue was rejected although the queue
\* has free space again.
C3_Witness ==
    \E k \in waited :
        /\ ret[k] = "rejected"
        /\ queue_size < MAX_QUEUE

\* C4: a successfully submitted unit is, at any time, either in exactly one
\* live slot of the ring or was dequeued exactly once, and then it is being
\* executed by exactly one worker or was executed exactly once; a unit that
\* was not accepted is never dequeued or executed.
C4_ExactlyOnce ==
    \A k \in Tasks :
        /\ executed[k] <= 1
        /\ ret[k] = "ok" =>
              /\ InRing(k) + InDeq(k) = 1
              /\ executed[k] + Running(k) = InDeq(k)
        /\ ret[k] # "ok" => InDeq(k) = 0 /\ executed[k] = 0

\* More units than slots were appended (a slot was reused), two workers
\* are executing at once and a unit has been executed.
C4_Witness ==
    /\ Len(enq) > MAX_QUEUE
    /\ \A w \in Workers : pc[w] = "exec"
    /\ \E k \in Tasks : executed[k] = 1

\* C5: 0 <= queue_size <= MAX_QUEUE and head and tail are ring indices.
\* queue_size changes by one, so a decrement at 0 or an increment at
\* MAX_QUEUE would leave the range.
C5_SizeInRange ==
    /\ queue_size \in 0..MAX_QUEUE
    /\ head \in Slots
    /\ tail \in Slots

\* The ring is full after it wrapped around: a worker took a unit at size
\* MAX_QUEUE and a submit filled the freed slot.
C5_Witness ==
    /\ queue_size = MAX_QUEUE
    /\ head # 0
    /\ tail = head
    /\ Len(deq) > 0

\* C6: a submit that finds the queue full with the flag clear waits; a call
\* that has waited returns only after a worker dequeued a unit or shutdown
\* was requested, and returns success only after a worker dequeued a unit.
C6_Backpressure ==
    [][\A p \in Producers :
          /\ (pc[p] = "cs" /\ queue_size = MAX_QUEUE /\ ~shutdown /\ pc'[p] # "cs") =>
                (pc'[p] = "wait" /\ enq' = enq /\ ret' = ret)
          /\ (blockedAt[p] >= 0 /\ pc[p] # "idle" /\ pc'[p] = "idle") =>
                /\ shutdown \/ Len(deq) > blockedAt[p]
                /\ ret'[task[p]] = "ok" => Len(deq) > blockedAt[p]]_vars

\* A call that waited on a full queue returned success.
C6_Witness == \E k \in waited : ret[k] = "ok"

\* C9: a thread between its pthread_mutex_lock and the matching unlock or
\* wait, where it reads and writes the queue state, owns queue_mutex; at
\* most one thread owns it; a worker executing an action does not own it.
C9_LockDiscipline ==
    /\ \A t \in Threads : pc[t] = "cs" => t \in holders
    /\ Cardinality(holders) <= 1
    /\ \A w \in Workers : pc[w] = "exec" => w \notin holders


\* C7: with no shutdown requested, under fair scheduling every submit that
\* was called returns success and its unit is executed, exactly once; in
\* particular a producer that submits more units than the queue holds is
\* not blocked forever.
C7_AllEventuallyExecuted ==
    /\ \A k \in Tasks :
          (nsubmit >= k) ~> (pc[Main] # "idle" \/ (ret[k] = "ok" /\ executed[k] = 1))
    /\ [](\A k \in Tasks : executed[k] <= 1)

\* One producer made every call, more calls than the queue has slots, one
\* of them waited on the full queue, and every unit was executed once.
C7_Witness ==
    /\ pc[Main] = "idle"
    /\ nsubmit = MaxTasks
    /\ MaxTasks > MAX_QUEUE
    /\ waited # {}
    /\ Cardinality(callers) = 1
    /\ \A k \in Tasks : ret[k] = "ok" /\ executed[k] = 1

\* C8: once the shutdown flag is set, under fair scheduling every worker
\* exits, thread_pool_shutdown joins them all and returns, and every submit
\* under way returns.
C8_ShutdownTerminates ==
    /\ shutdown ~> (pc[Main] = "returned" /\ joined = MAX_THREADS
                       /\ \A w \in Workers : pc[w] = "exited")
    /\ \A p \in Producers : (shutdown /\ pc[p] # "idle") ~> (pc[p] = "idle")

\* Shutdown returned after it found the queue full and a submit waiting on
\* it, which was rejected.
C8_Witness ==
    /\ pc[Main] = "returned"
    /\ sizeAtSignal = MAX_QUEUE
    /\ \E k \in waited : ret[k] = "rejected"
    /\ \A p \in Producers : pc[p] = "idle"

\* C10: after transport_init, no call of transport_send, transport_receive,
\* transport_accept or transport_close changes is_connected from false to
\* true: is_connected becomes true only in a step of transport_init.
C10_ConnectedOnlyByInit ==
    [][(~is_connected /\ is_connected') => lastOp' = "init"]_vars

\* A client whose receive saw the peer close: its socket is still open, it
\* is no longer connected.
C10_Witness ==
    /\ lastOp = "receive"
    /\ ~is_server
    /\ ~is_connected
    /\ socket_fd \in fdOpen

\* A step of transport_receive: the only call that leaves lastOp at
\* "receive" and the other end as it is.
ReceiveStep == lastOp' = "receive" /\ UNCHANGED <<peer, pending>>

\* The KORRA client's connection was accepted, its descriptor is the
\* caller's client_fd, and the first frame waiting on it is that of msg.
AcceptedAndSent(msg) ==
    /\ is_server
    /\ socket_fd \in fdOpen
    /\ peer.state = "accepted"
    /\ peer.fd = client_fd
    /\ pending # <<>>
    /\ pending[1].msg = msg

\* C11: end-to-end scenario A.  After this process initialised as server, a
\* KORRA client connected to it and sent a HEARTBEAT with empty payload,
\* and transport_accept succeeded with the client's connection, a call of
\* transport_receive returns 0 with msg_type HEARTBEAT and payload_size 0.
C11_ServerReceivesHeartbeat ==
    [][(ReceiveStep /\ AcceptedAndSent(Heartbeat)) =>
          /\ lastRet' = 0
          /\ message'.msg_type = MSG_HEARTBEAT
          /\ message'.payload_size = 0]_vars

\* The last call was a transport_receive whose header recv() delivered a
\* full header; ReadHeader is that header as this host reads it.
HeaderWasRead == lastOp = "receive" /\ trace # <<>> /\ trace[1].ret = HeaderSize
ReadHeader == HeaderOf(hostLE, trace[1].data)

\* C12: a transport_receive that read a full header whose magic is not
\* 0x4B525241 or whose version is not 1 returns -1 whatever payload_size
\* is, has called neither malloc nor a second recv, and leaves the
\* transport connected; a bad magic is what it reports when the version is
\* bad too.
C12_BadHeaderRejected ==
    (HeaderWasRead /\ (ReadHeader.magic # KORRA_MSG_MAGIC
                          \/ ReadHeader.version # KORRA_PROTOCOL_VERSION)) =>
        /\ lastRet = -1
        /\ CallsOf(trace, "malloc") = {}
        /\ CallsOf(trace, "recv") = {1}
        /\ is_connected
        /\ cause = IF ReadHeader.magic # KORRA_MSG_MAGIC THEN "bad_magic" ELSE "bad_version"

\* A header with a bad magic and a bad version that announces a payload
\* was rejected for its magic.
C12_Witness ==
    /\ HeaderWasRead
    /\ ReadHeader.magic # KORRA_MSG_MAGIC
    /\ ReadHeader.version # KORRA_PROTOCOL_VERSION
    /\ ReadHeader.payload_size > 0
    /\ cause = "bad_magic"

\* The last call was a transport_receive one of whose recv() calls
\* returned zero bytes.
ZeroByteRead ==
    /\ lastOp = "receive"
    /\ \E i \in CallsOf(trace, "recv") : trace[i].ret = 0

\* The payload buffers the last call allocated and did not free.
LiveBuffers ==
    Cardinality({i \in CallsOf(trace, "malloc") : trace[i].ret # 0})
        - Cardinality(CallsOf(trace, "free"))

\* C13: a transport_receive that read zero bytes, for the header or for
\* the payload, returns something else than it returns for a failed read,
\* leaves is_connected false and leaves no payload buffer allocated:
\* what it allocated it freed, and message.payload does not point to it.
C13_PeerClosedReported ==
    ZeroByteRead =>
        /\ lastRet # ReadErrorReturn
        /\ ~is_connected
        /\ LiveBuffers = 0
        /\ CallsOf(trace, "malloc") # {} => message.payload = "null"

\* A step of transport_send: the only call that leaves lastOp at "send"
\* and the other end as it is.
SendStep == lastOp' = "send" /\ UNCHANGED <<peer, pending>>

\* C14: a transport_send called while is_connected is false (a server
\* after transport_init, a client whose receive saw the peer close, any
\* transport after transport_close) returns -1 and makes no send() call:
\* no header byte and no payload byte is written.
C14_SendRequiresConnected ==
    [][(SendStep /\ ~is_connected) =>
          /\ lastRet' = -1
          /\ CallsOf(trace', "send") = {}]_vars

\* A client whose receive saw the peer close was refused a send on its
\* socket, which is still open.
C14_Witness ==
    /\ lastOp = "send"
    /\ cause = "not_connected"
    /\ lastRet = -1
    /\ ~is_server
    /\ socket_fd \in fdOpen

\* C15: transport_send leaves is_connected as it is.  A send() that fails
\* or transfers fewer bytes than asked for is the last call it makes (the
\* write is not repeated, and no payload write follows a failed header
\* write); it then returns -1 with is_connected still true.
C15_SendKeepsConnected ==
    [][SendStep =>
          /\ is_connected' = is_connected
          /\ Len(trace') <= 2
          /\ \A i \in CallsOf(trace', "send") :
                trace'[i].ret # trace'[i].n =>
                    /\ i = Len(trace')
                    /\ lastRet' = -1
                    /\ is_connected']_vars

\* The header went out in full, the payload write was short.
C15_Witness ==
    /\ lastOp = "send"
    /\ Len(trace) = 2
    /\ trace[1].ret = HeaderSize
    /\ trace[2].n = MaxPayload
    /\ trace[2].ret = MaxPayload - 1
    /\ lastRet = -1
    /\ is_connected

\* C16: round trip.  For every message msg: when the KORRA client's
\* transport_send(msg) succeeded and its frame is the next thing to read
\* on the connection this process accepted, a call of transport_receive
\* returns 0 and fills in msg: the same msg_type, payload_size and payload
\* bytes, and no buffer for an empty payload.
C16_RoundTrip ==
    [][\A msg \in Messages :
          (ReceiveStep /\ AcceptedAndSent(msg)) =>
              /\ lastRet' = 0
              /\ message'.msg_type = msg.msg_type
              /\ message'.payload_size = msg.payload_size
              /\ message'.data = msg.data
              /\ message'.payload = IF msg.payload_size = 0 THEN "null" ELSE "buffer"]_vars

\* The last call was a transport_send that went on to write; WrittenHeader
\* is the header it passed to send() as this host reads it.
HeaderWasWritten == lastOp = "send" /\ trace # <<>>
WrittenHeader == HeaderOf(hostLE, trace[1].data)

\* C17: the header transport_send writes is HeaderSize bytes with magic
\* 0x4B525241, version 1, the message's msg_type, reserved 0 and the
\* message's payload_size; when the header went out, the call that follows
\* it writes exactly payload_size bytes, the payload's, and nothing else
\* is written (no padding, and no payload write for an empty payload).
C17_HeaderWritten ==
    HeaderWasWritten =>
        /\ trace[1].n = HeaderSize
        /\ Len(trace[1].data) = HeaderSize
        /\ WrittenHeader.magic = KORRA_MSG_MAGIC
        /\ WrittenHeader.version = KORRA_PROTOCOL_VERSION
        /\ WrittenHeader.msg_type = outMsg.msg_type
        /\ WrittenHeader.reserved = 0
        /\ WrittenHeader.payload_size = outMsg.payload_size
        /\ trace[1].ret = HeaderSize =>
              IF outMsg.payload_size = 0 THEN Len(trace) = 1
              ELSE /\ Len(trace) = 2
                   /\ trace[2].n = outMsg.payload_size
                   /\ trace[2].data = outMsg.data

\* 0x4B 0x52 0x52 0x41, "KRRA": the magic in network byte order.
MagicOnWire == <<75, 82, 82, 65>>

\* C18: on a host of either byte order the multi-byte header fields are
\* on the wire most significant byte first.  The first four bytes
\* transport_send writes are 0x4B 0x52 0x52 0x41 and bytes 8..11 (counted
\* from 0) are payload_size big-endian; a header that transport_receive
\* reads with these first four bytes and version 1 passes the magic check
\* and its payload_size is the big-endian value of bytes 8..11.
C18_NetworkByteOrder ==
    /\ HeaderWasWritten =>
          /\ SubSeq(trace[1].data, 1, 4) = MagicOnWire
          /\ SubSeq(trace[1].data, 9, 12) = BigEndian32(outMsg.payload_size)
    /\ (HeaderWasRead /\ SubSeq(trace[1].data, 1, 4) = MagicOnWire
                      /\ trace[1].data[5] = KORRA_PROTOCOL_VERSION) =>
          /\ cause # "bad_magic"
          /\ ReadHeader.payload_size = BytesU32(FALSE, SubSeq(trace[1].data, 9, 12))

\* A step of transport_close: it leaves lastOp at "close", and the other
\* end as it is or without its connection.
CloseStep == lastOp' = "close" /\ peer' \in {peer, NoPeer} /\ pending' \in {pending, <<>>}

AcceptStep ==
    /\ lastOp' = "accept"
    /\ pending' = pending
    /\ peer' = peer \/ peer'.state = "accepted"

\* C20: transport_accept leaves socket_fd, is_server and is_connected as
\* they are, whether it succeeds or fails.  In client role it returns -1
\* without calling accept(); when it succeeds the role is server and the
\* descriptor it yields is a newly opened one, not the listening socket_fd.
C20_AcceptFrame ==
    [][AcceptStep =>
          /\ transportState' = transportState
          /\ ~is_server =>
                /\ lastRet' = -1
                /\ CallsOf(trace', "accept") = {}
                /\ client_fd' = client_fd
                /\ fdOpen' = fdOpen
          /\ lastRet' = 0 =>
                /\ is_server
                /\ client_fd' # socket_fd
                /\ client_fd' \notin fdOpen
                /\ fdOpen' = fdOpen \cup {client_fd'}]_vars

\* A server accepted a connection: it is not connected, and it holds the
\* listening socket and the accepted descriptor, both open.
C20_Witness ==
    /\ lastOp = "accept"
    /\ lastRet = 0
    /\ is_server
    /\ ~is_connected
    /\ {socket_fd, client_fd} \subseteq fdOpen
    /\ client_fd # socket_fd

\* The producers inside thread_pool_submit.
Submitting == {p \in Producers : pc[p] # "idle"}

\* C21: no wake-up is lost.  While shutdown is not requested: when the
\* queue is non-empty, some worker is not blocked in
\* pthread_cond_wait(queue_not_empty) without a signal; when the queue is
\* not full and a producer is inside thread_pool_submit, some producer
\* inside it is not blocked in pthread_cond_wait(queue_not_full) without
\* a signal.
C21_NoLostWakeup ==
    ~shutdown =>
        /\ queue_size > 0 => \E w \in Workers : w \notin waitNotEmpty
        /\ (queue_size < MAX_QUEUE /\ Submitting # {}) =>
              \E p \in Submitting : p \notin waitNotFull

\* A producer that waited on the full queue has been signalled by the
\* worker that took a unit and has not yet re-acquired the mutex.
C21_Witness ==
    /\ ~shutdown
    /\ queue_size < MAX_QUEUE
    /\ \E p \in Producers :
          /\ pc[p] = "relock"
          /\ blockedAt[p] >= 0
          /\ Len(deq) > blockedAt[p]

\* How often task k was appended.
InEnq(k) == Cardinality({i \in 1..Len(enq) : enq[i] = k})

\* The units appended and not yet taken, oldest first.
Outstanding == SubSeq(enq, Len(deq) + 1, Len(enq))

\* C22: the ring is consistent.  tail is (head + queue_size) mod
\* MAX_QUEUE, and the slots head, head + 1, ..., head + queue_size - 1
\* (mod MAX_QUEUE) hold exactly the units that were enqueued and not yet
\* dequeued, in the order they were enqueued.
C22_RingConsistent ==
    /\ tail = (head + queue_size) % MAX_QUEUE
    /\ queue_size = Len(Outstanding)
    /\ \A i \in 1..queue_size : queue[(head + i - 1) % MAX_QUEUE] = Outstanding[i]
    /\ \A k \in Tasks : InRing(k) = InEnq(k) - InDeq(k)

\* The live part of the ring wraps around its end: it starts at the last
\* slot and holds more than one unit.
C22_Witness ==
    /\ head = MAX_QUEUE - 1
    /\ queue_size > 1
    /\ Len(deq) > 0

\* C23: across any sequence of transport_init and transport_close calls,
\* failed initialisations included, no descriptor the transport opened is
\* closed more than once: every close() the transport makes is made on a
\* descriptor that is open, in particular the one transport_close makes
\* after a transport_init that failed and closed its socket itself.
C23_NoDoubleClose ==
    /\ badCloses = 0
    /\ \A i \in CallsOf(trace, "close") : trace[i].ret = 0

====
